---- MODULE Spec2Model ----
(***************************************************************************)
(* Model of src/lib.rs (Advent of Code 2023, day 2).                       *)
(*                                                                         *)
(*   InfiniteLinesReader  the lines of a file, with iter() and cycle()     *)
(*   PagedIterator        labels every item of an iterator (page, line)    *)
(*   solve                sum of the ids of the games within the limits    *)
(*   ext_solve            sum of the powers of the games                   *)
(*                                                                         *)
(* A line is a sequence of one-character strings, a token likewise.  Rust  *)
(* indices are kept 0-based (r, tokens[r]); At(s, i) reads a 0-based       *)
(* index of a TLA+ sequence.  A panic (assert_eq!, expect, index out of    *)
(* bounds, panic!) ends the run in pc = "abort" with no value returned.    *)
(* usize arithmetic is modelled on the naturals: the values the bounds     *)
(* below reach stay far under 2^64.                                        *)
(***************************************************************************)
EXTENDS Integers, Sequences, FiniteSets, TLC

\* ------------------------------------------------------------------ bounds
\* Lines of the input file of solve / ext_solve.
MaxLines == 2
\* (count, colour) pairs of one record.
MaxPairs == 3
\* Items of the sequence wrapped by a stand-alone PagedIterator, and stored
\* lines of a stand-alone cycle().
MaxItems == 3
\* Page lengths 0..MaxPageLen of a stand-alone PagedIterator.
MaxPageLen == 2
\* next() calls made on a stand-alone iterator.
MaxCalls == 5

\* ------------------------------------------------------------- Option<T>
None == [some |-> FALSE, v |-> 0]
Some(x) == [some |-> TRUE, v |-> x]

\* --------------------------------------------------------------- strings
At(s, i) == s[i + 1]

Digits == <<"0", "1", "2", "3", "4", "5", "6", "7", "8", "9">>

IsDigit(c) == \E d \in 1..10 : Digits[d] = c

DigitVal(c) == (CHOOSE d \in 1..10 : Digits[d] = c) - 1

GameT == <<"G", "a", "m", "e">>
RedT == <<"r", "e", "d">>
GreenT == <<"g", "r", "e", "e", "n">>
BlueT == <<"b", "l", "u", "e">>

\* The delimiters of split(&[' ', ',', ':', ';'][..]).
IsDelimiter(c) == c \in {" ", ",", ":", ";"}

\* char::is_whitespace, on the characters of the model's alphabet.
IsWhitespace(c) == c \in {" ", "\t", "\r", "\n"}

\* str::split: the pieces between delimiters, empty pieces included.
RECURSIVE SplitFrom(_, _, _)
SplitFrom(s, cur, acc) ==
    IF s = <<>> THEN Append(acc, cur)
    ELSE IF IsDelimiter(Head(s)) THEN SplitFrom(Tail(s), <<>>, Append(acc, cur))
    ELSE SplitFrom(Tail(s), Append(cur, Head(s)), acc)

Split(s) == SplitFrom(s, <<>>, <<>>)

RECURSIVE TrimStart(_)
TrimStart(s) ==
    IF s # <<>> /\ IsWhitespace(Head(s)) THEN TrimStart(Tail(s)) ELSE s

RECURSIVE TrimEnd(_)
TrimEnd(s) ==
    IF s # <<>> /\ IsWhitespace(s[Len(s)])
    THEN TrimEnd(SubSeq(s, 1, Len(s) - 1)) ELSE s

\* str::trim
Trim(s) == TrimEnd(TrimStart(s))

\* .map(|t| t.trim()).filter(|t| t.len() > 0).collect()
Tokenize(cv) ==
    LET pieces == Split(cv)
        trimmed == [i \in 1..Len(pieces) |-> Trim(pieces[i])]
    IN SelectSeq(trimmed, LAMBDA t : Len(t) > 0)

RECURSIVE ParseDigits(_, _)
ParseDigits(s, acc) ==
    IF s = <<>> THEN Some(acc)
    ELSE IF ~IsDigit(Head(s)) THEN None
    ELSE ParseDigits(Tail(s), acc * 10 + DigitVal(Head(s)))

\* str::parse::<usize>: an optional '+', then one or more decimal digits.
ParseUsize(t) ==
    LET body == IF t # <<>> /\ Head(t) = "+" THEN Tail(t) ELSE t
    IN IF body = <<>> THEN None ELSE ParseDigits(body, 0)

\* ------------------------------------------------- InfiniteLinesReader
\* self.lines.iter(): the next item of the iterator at position pos, if any.
IterNext(ls, pos) ==
    IF pos < Len(ls) THEN [pos |-> pos + 1, ret |-> Some(At(ls, pos))]
    ELSE [pos |-> pos, ret |-> None]

\* cycle() that does not restart the iterator: it ends with the lines.
CycleNextNoRestart(ls, pos) == IterNext(ls, pos)

\* self.lines.iter().cycle(): the iterator is restarted when it is exhausted
\* and its first item returned; a restarted iterator that is empty too
\* returns None.
CycleNext(ls, pos) ==
    IF IterNext(ls, pos).ret.some THEN IterNext(ls, pos)
    ELSE IterNext(ls, 0)

\* -------------------------------------------------------- PagedIterator
PagedInit(n) == [page_length |-> n, page_number |-> 1, line_number |-> 0]

\* next() that turns the page one item early (>= for >).
PagedNextEarlyPage(p, y) ==
    IF ~y.some THEN [it |-> p, ret |-> None]
    ELSE LET ln == p.line_number + 1
             q == IF ln >= p.page_length
                  THEN [p EXCEPT !.page_number = p.page_number + 1,
                                 !.line_number = 1]
                  ELSE [p EXCEPT !.line_number = ln]
         IN [it |-> q,
             ret |-> Some([page |-> q.page_number, line |-> q.line_number,
                           item |-> y.v])]

\* next() that counts the line before it looks at what the wrapped iterator
\* returned.
PagedNextCountsNone(p, y) ==
    LET ln == p.line_number + 1
        q == IF ln > p.page_length
             THEN [p EXCEPT !.page_number = p.page_number + 1,
                            !.line_number = 1]
             ELSE [p EXCEPT !.line_number = ln]
    IN IF ~y.some THEN [it |-> q, ret |-> None]
       ELSE [it |-> q,
             ret |-> Some([page |-> q.page_number, line |-> q.line_number,
                           item |-> y.v])]

\* PagedIterator::next on the iterator state p, y being what the wrapped
\* iterator's next() returned.
PagedNext(p, y) ==
    IF ~y.some THEN [it |-> p, ret |-> None]
    ELSE LET ln == p.line_number + 1
             q == IF ln > p.page_length
                  THEN [p EXCEPT !.page_number = p.page_number + 1,
                                 !.line_number = 1]
                  ELSE [p EXCEPT !.line_number = ln]
         IN [it |-> q,
             ret |-> Some([page |-> q.page_number, line |-> q.line_number,
                           item |-> y.v])]

\* ---------------------------------------------------------------- solve
\* The assert compares without regard to case.
HeaderOkAnyCase(toks) ==
    Len(toks) > 0 /\ At(toks, 0) \in {GameT, <<"g", "a", "m", "e">>}

\* assert_eq!("Game", tokens[0]): false also when tokens[0] is out of bounds.
HeaderOk(toks) == Len(toks) > 0 /\ At(toks, 0) = GameT

\* The match of solve with >= for > on red.
CheckColourRedOffByOne(colour, value) ==
    CASE colour = RedT -> IF value >= 12 THEN "break" ELSE "next"
      [] colour = GreenT -> IF value > 13 THEN "break" ELSE "next"
      [] colour = BlueT -> IF value > 14 THEN "break" ELSE "next"
      [] OTHER -> "panic"

\* The match of solve: "break" when the value is over the colour's limit,
\* "panic" on a colour name that is none of the three.
CheckColour(colour, value) ==
    CASE colour = RedT -> IF value > 12 THEN "break" ELSE "next"
      [] colour = GreenT -> IF value > 13 THEN "break" ELSE "next"
      [] colour = BlueT -> IF value > 14 THEN "break" ELSE "next"
      [] OTHER -> "panic"

\* solve, from the assert to the start of the pair loop.
SolveHeader(toks) ==
    IF ~HeaderOk(toks) THEN [pc |-> "abort", id |-> 0]
    ELSE IF Len(toks) < 2 THEN [pc |-> "abort", id |-> 0]
    ELSE IF ~ParseUsize(At(toks, 1)).some THEN [pc |-> "abort", id |-> 0]
    ELSE [pc |-> "pairs", id |-> ParseUsize(At(toks, 1)).v]

\* The pair loop that breaks without valid = false.
SolvePairBreakKeepsValid(toks, i) ==
    IF ~ParseUsize(At(toks, i)).some THEN [pc |-> "abort", valid |-> TRUE, r |-> i]
    ELSE IF i + 1 >= Len(toks) THEN [pc |-> "abort", valid |-> TRUE, r |-> i]
    ELSE LET m == CheckColour(At(toks, i + 1), ParseUsize(At(toks, i)).v)
         IN CASE m = "panic" -> [pc |-> "abort", valid |-> TRUE, r |-> i]
              [] m = "break" -> [pc |-> "tally", valid |-> TRUE, r |-> i]
              [] OTHER -> [pc |-> "pairs", valid |-> TRUE, r |-> i + 2]

\* One iteration of solve's pair loop, r < tokens.len().
SolvePair(toks, i) ==
    IF ~ParseUsize(At(toks, i)).some THEN [pc |-> "abort", valid |-> TRUE, r |-> i]
    ELSE IF i + 1 >= Len(toks) THEN [pc |-> "abort", valid |-> TRUE, r |-> i]
    ELSE LET m == CheckColour(At(toks, i + 1), ParseUsize(At(toks, i)).v)
         IN CASE m = "panic" -> [pc |-> "abort", valid |-> TRUE, r |-> i]
              [] m = "break" -> [pc |-> "tally", valid |-> FALSE, r |-> i]
              [] OTHER -> [pc |-> "pairs", valid |-> TRUE, r |-> i + 2]

\* ------------------------------------------------------------ ext_solve
\* A combining function that keeps the newer count.
UsizeMaxKeepsNewer(l, x) == x

\* usize::max
UsizeMax(l, x) == IF x >= l THEN x ELSE l

\* reduce(a, b, f), the closure f being a function of two arguments.
Reduce(a, b, f) ==
    CASE a.some /\ b.some -> Some(f[a.v, b.v])
      [] a.some /\ ~b.some -> a
      [] ~a.some /\ b.some -> b
      [] OTHER -> None

\* [None, None, None], indexed 0..2 through At.
NewMValues == <<None, None, None>>

\* The match of ext_solve with a catch-all arm for blue.
ColourIndexCatchAll(colour) ==
    CASE colour = RedT -> 0
      [] colour = GreenT -> 1
      [] OTHER -> 2

\* The match of ext_solve: the colour's slot, -1 for the panic.
ColourIndex(colour) ==
    CASE colour = RedT -> 0
      [] colour = GreenT -> 1
      [] colour = BlueT -> 2
      [] OTHER -> -1

\* mvalues[index] = mvalues[index].reduce(Some(value), usize::max)
UpdateMValues(mv, index, value) ==
    [mv EXCEPT ![index + 1] = Reduce(At(mv, index), Some(value),
                                [l \in Nat, x \in Nat |-> UsizeMax(l, x)])]

\* ext_solve, from the assert to the start of the pair loop: token 1 is
\* never read.
ExtHeader(toks) == IF ~HeaderOk(toks) THEN "abort" ELSE "pairs"

\* One iteration of ext_solve's pair loop, r < tokens.len().
ExtPair(toks, i, mv) ==
    IF ~ParseUsize(At(toks, i)).some THEN [pc |-> "abort", mvalues |-> mv, r |-> i]
    ELSE IF i + 1 >= Len(toks) THEN [pc |-> "abort", mvalues |-> mv, r |-> i]
    ELSE IF ColourIndex(At(toks, i + 1)) < 0 THEN [pc |-> "abort", mvalues |-> mv, r |-> i]
    ELSE [pc |-> "pairs",
          mvalues |-> UpdateMValues(mv, ColourIndex(At(toks, i + 1)),
                                    ParseUsize(At(toks, i)).v),
          r |-> i + 2]

\* unwrap_or that yields 1, the neutral factor, for None.
UnwrapOrOne(o, d) == IF o.some THEN o.v ELSE 1

\* Option::unwrap_or
UnwrapOr(o, d) == IF o.some THEN o.v ELSE d

\* game_power: 1, multiplied by c.unwrap_or(0) for every slot c.
GamePower(mv) == 1 * UnwrapOr(mv[1], 0) * UnwrapOr(mv[2], 0) * UnwrapOr(mv[3], 0)

\* ------------------------------------------------------ the input file
\* A record as the input file states it.  A count or an id is Num(n), a
\* number written in decimal, or Raw(t), the text t as it stands.
Num(n) == [isnum |-> TRUE, n |-> n, t |-> <<>>]
Raw(t) == [isnum |-> FALSE, n |-> 0, t |-> t]

RECURSIVE ToDecimal(_)
ToDecimal(n) ==
    IF n < 10 THEN <<Digits[n + 1]>>
    ELSE ToDecimal(n \div 10) \o <<Digits[(n % 10) + 1]>>

Text(x) == IF x.isnum THEN ToDecimal(x.n) ELSE x.t

\* The tokens of a record: keyword, id, then count and colour of each pair
\* (a pair with no colour is a trailing count on its own).
RECURSIVE PairTokens(_)
PairTokens(ps) ==
    IF ps = <<>> THEN <<>>
    ELSE <<Text(Head(ps).count)>>
         \o (IF Head(ps).colour = <<>> THEN <<>> ELSE <<Head(ps).colour>>)
         \o PairTokens(Tail(ps))

RecTokens(rc) ==
    rc.kw \o [i \in 1..Len(rc.id) |-> Text(rc.id[i])] \o PairTokens(rc.pairs)

\* What follows token j of n on the line: "Game 1: 3 blue, 4 red; 2 green".
Separator(j, n, crlf) ==
    IF j = n THEN (IF crlf THEN <<"\r">> ELSE <<>>)
    ELSE IF j = 1 THEN <<" ">>
    ELSE IF j = 2 THEN <<":", " ">>
    ELSE IF j % 2 = 1 THEN <<" ">>
    ELSE IF j % 4 = 0 THEN <<",", " ">>
    ELSE <<";", " ">>

RECURSIVE JoinFrom(_, _, _)
JoinFrom(toks, j, crlf) ==
    IF j > Len(toks) THEN <<>>
    ELSE toks[j] \o Separator(j, Len(toks), crlf) \o JoinFrom(toks, j + 1, crlf)

\* The stored line of a record: read_line's text with the "\n" removed,
\* which leaves the "\r" of a line that ends in "\r\n" (cr).
RenderLine(rc) ==
    IF RecTokens(rc) = <<>> THEN (IF rc.cr THEN <<"\r">> ELSE <<>>)
    ELSE JoinFrom(RecTokens(rc), 1, rc.cr)

NoRec == [kw |-> <<>>, id |-> <<>>, pairs |-> <<>>, cr |-> FALSE]

Colours == {RedT, GreenT, BlueT}

\* Well-formed pairs: counts at a colour's limit and one above it.
GoodPairs ==
    {[count |-> Num(12), colour |-> RedT], [count |-> Num(13), colour |-> RedT],
     [count |-> Num(13), colour |-> GreenT], [count |-> Num(14), colour |-> GreenT],
     [count |-> Num(14), colour |-> BlueT]}

\* Malformed pairs: a count that is no number, a colour that is none of the
\* three, a count with no colour after it.
BadPairs ==
    {[count |-> Raw(<<"x">>), colour |-> RedT],
     [count |-> Num(3), colour |-> <<"p", "i", "n", "k">>],
     [count |-> Num(7), colour |-> <<>>]}

RECURSIVE SeqsUpTo(_, _)
SeqsUpTo(S, n) ==
    IF n = 0 THEN {<<>>}
    ELSE LET shorter == SeqsUpTo(S, n - 1)
         IN shorter \cup {Append(q, x) : q \in {t \in shorter : Len(t) = n - 1}, x \in S}

\* Pair lists of a record: well-formed pairs, the last one possibly malformed.
PairLists ==
    SeqsUpTo(GoodPairs, MaxPairs)
    \cup {Append(q, b) : q \in SeqsUpTo(GoodPairs, MaxPairs - 1), b \in BadPairs}

\* The records line number k of the file may hold: "Game k" with any pair
\* list, or a malformed header (no keyword or another one, no id or one that
\* is no number) with at most one pair.  A line of at most one pair may end
\* in "\r\n".
BadHeads ==
    {[kw |-> k, id |-> i] :
        k \in {<<>>, <<GameT>>, <<<<"g", "a", "m", "e">>>>},
        i \in {<<>>, <<Num(1)>>, <<Raw(<<"-", "1">>)>>}}
    \ {[kw |-> <<GameT>>, id |-> <<Num(1)>>]}

Records(k) ==
    {[kw |-> <<GameT>>, id |-> <<Num(k)>>, pairs |-> ps, cr |-> FALSE] :
        ps \in PairLists}
    \cup {[kw |-> <<GameT>>, id |-> <<Num(k)>>, pairs |-> ps, cr |-> TRUE] :
            ps \in {q \in PairLists : Len(q) <= 1}}
    \cup {[kw |-> h.kw, id |-> h.id, pairs |-> ps, cr |-> c] :
            h \in BadHeads, ps \in SeqsUpTo(GoodPairs, 1), c \in BOOLEAN}

\* Stored lines of a stand-alone reader.
ItemLines == SeqsUpTo({<<"a">>, <<"b">>}, MaxItems)

\* ------------------------------------------- what the claims compare with
\* A record of the shape "Game <id>: <count> <colour>, ...".
WellFormed(rc) ==
    /\ rc.kw = <<GameT>>
    /\ Len(rc.id) = 1 /\ rc.id[1].isnum
    /\ \A i \in 1..Len(rc.pairs) :
          rc.pairs[i].count.isnum /\ rc.pairs[i].colour \in Colours

\* The ceilings red 12, green 13, blue 14.
Ceiling(colour) == IF colour = RedT THEN 12 ELSE IF colour = GreenT THEN 13 ELSE 14

WithinCeilings(rc) ==
    \A i \in 1..Len(rc.pairs) : rc.pairs[i].count.n <= Ceiling(rc.pairs[i].colour)

\* The counts of colour c among the pairs ps.
CountsOf(ps, c) == {ps[i].count.n : i \in {j \in 1..Len(ps) : ps[j].colour = c}}

Largest(S) == CHOOSE m \in S : \A x \in S : x <= m

\* The largest count of colour c among ps, 0 when there is none.
MaxOrZero(ps, c) == Largest(CountsOf(ps, c) \cup {0})

PowerOf(rc) ==
    MaxOrZero(rc.pairs, RedT) * MaxOrZero(rc.pairs, GreenT) * MaxOrZero(rc.pairs, BlueT)

\* What a well-formed record adds to the result of each entry point.
Worth(p, rc) ==
    IF p = "solve" THEN (IF WithinCeilings(rc) THEN rc.id[1].n ELSE 0)
    ELSE PowerOf(rc)

\* ---------------------------------------------------------------- state
VARIABLES
    prog,       \* what runs: "solve", "ext_solve", or a stand-alone "paged" / "cycle" iterator
    pc,         \* "start", "loop", "pairs", "tally", "done", "abort", "ioerr"; "iter" stand-alone
    length,     \* reader.length()
    lines,      \* reader.lines of a stand-alone iterator
    inner,      \* items the wrapped iterator has yielded
    paged,      \* the PagedIterator: page_length, page_number, line_number
    cv,         \* the line being processed
    tokens, id, valid, r, mvalues, rx,  \* the locals of solve / ext_solve
    result,     \* what the entry point returned: kind "none", "ok" or "err"
    out,        \* what the calls of a stand-alone iterator returned, in order
    rec,        \* the record that cv states
    expected,   \* the sum of Worth over the records read so far
    allWF       \* whether every record read so far is well-formed

vars == <<prog, pc, length, lines, inner, paged, cv, tokens, id, valid, r,
          mvalues, rx, result, out, rec, expected, allWF>>

NoResult == [kind |-> "none", v |-> 0]
Ok(x) == [kind |-> "ok", v |-> x]
Err == [kind |-> "err", v |-> 0]

Init ==
    /\ \/ prog \in {"solve", "ext_solve"} /\ pc = "start" /\ lines = <<>>
          /\ paged = PagedInit(0)
       \/ prog = "paged" /\ pc = "iter" /\ lines \in ItemLines
          /\ \E n \in 0..MaxPageLen : paged = PagedInit(n)
       \/ prog = "cycle" /\ pc = "iter" /\ lines \in ItemLines
          /\ paged = PagedInit(0)
    /\ length = Len(lines) /\ inner = 0
    /\ cv = <<>> /\ tokens = <<>> /\ id = 0 /\ valid = TRUE /\ r = 0
    /\ mvalues = NewMValues /\ rx = 0 /\ result = NoResult /\ out = <<>>
    /\ rec = NoRec /\ expected = 0 /\ allWF = TRUE

\* The locals of one record go out of scope.
EndOfRecord ==
    /\ cv' = <<>> /\ tokens' = <<>> /\ id' = 0 /\ valid' = TRUE /\ r' = 0
    /\ mvalues' = NewMValues /\ rec' = NoRec

\* InfiniteLinesReader::init fails: File::open or read_line returns Err.
OpenFails ==
    /\ pc = "start"
    /\ pc' = "ioerr" /\ result' = Err
    /\ UNCHANGED <<prog, length, lines, inner, paged, cv, tokens, id, valid,
                   r, mvalues, rx, out, rec, expected, allWF>>

\* InfiniteLinesReader::init reads n lines; PagedIterator::init; rx = 0.
Open ==
    /\ pc = "start"
    /\ \E n \in 0..MaxLines : length' = n /\ paged' = PagedInit(n)
    /\ pc' = "loop" /\ rx' = 0
    /\ UNCHANGED <<prog, lines, inner, cv, tokens, id, valid, r, mvalues, result,
                   out, rec, expected, allWF>>

\* The record read next is accounted for.
Account(rc) ==
    /\ rec' = rc
    /\ allWF' = (allWF /\ WellFormed(rc))
    /\ expected' = IF WellFormed(rc) THEN expected + Worth(prog, rc) ELSE expected

\* solve: lines.next() yields a line; tokens, the assert, the id.
SolveNextLine ==
    /\ prog = "solve" /\ pc = "loop" /\ inner < length
    /\ \E rc \in Records(inner + 1) :
          LET pn == PagedNext(paged, Some(RenderLine(rc)))
              toks == Tokenize(pn.ret.v.item)
          IN /\ paged' = pn.it /\ cv' = pn.ret.v.item /\ tokens' = toks
             /\ pc' = SolveHeader(toks).pc /\ id' = SolveHeader(toks).id
             /\ Account(rc)
    /\ inner' = inner + 1 /\ valid' = TRUE /\ r' = 2
    /\ UNCHANGED <<prog, length, lines, mvalues, rx, result, out>>

\* solve: one pair of the record.
SolvePairStep ==
    /\ prog = "solve" /\ pc = "pairs" /\ r < Len(tokens)
    /\ pc' = SolvePair(tokens, r).pc
    /\ valid' = SolvePair(tokens, r).valid
    /\ r' = SolvePair(tokens, r).r
    /\ UNCHANGED <<prog, length, lines, inner, paged, cv, tokens, id,
                   mvalues, rx, result, out, rec, expected, allWF>>

\* solve: after the pair loop, the id of a valid game is added.
SolveTally ==
    /\ prog = "solve"
    /\ pc = "tally" \/ (pc = "pairs" /\ r >= Len(tokens))
    /\ rx' = IF valid THEN rx + id ELSE rx
    /\ pc' = "loop"
    /\ EndOfRecord
    /\ UNCHANGED <<prog, length, lines, inner, paged, result, out,
                   expected, allWF>>

\* solve: lines.next() yields None; Ok(rx).
SolveReturn ==
    /\ prog = "solve" /\ pc = "loop" /\ inner >= length
    /\ paged' = PagedNext(paged, None).it
    /\ result' = Ok(rx) /\ pc' = "done"
    /\ UNCHANGED <<prog, length, lines, inner, cv, tokens, id, valid, r,
                   mvalues, rx, out, rec, expected, allWF>>

\* ext_solve: lines.next() yields a line; tokens, the assert, mvalues.
ExtNextLine ==
    /\ prog = "ext_solve" /\ pc = "loop" /\ inner < length
    /\ \E rc \in Records(inner + 1) :
          LET pn == PagedNext(paged, Some(RenderLine(rc)))
              toks == Tokenize(pn.ret.v.item)
          IN /\ paged' = pn.it /\ cv' = pn.ret.v.item /\ tokens' = toks
             /\ pc' = ExtHeader(toks)
             /\ Account(rc)
    /\ inner' = inner + 1 /\ r' = 2 /\ mvalues' = NewMValues
    /\ UNCHANGED <<prog, length, lines, id, valid, rx, result, out>>

\* ext_solve: one pair of the record.
ExtPairStep ==
    /\ prog = "ext_solve" /\ pc = "pairs" /\ r < Len(tokens)
    /\ pc' = ExtPair(tokens, r, mvalues).pc
    /\ mvalues' = ExtPair(tokens, r, mvalues).mvalues
    /\ r' = ExtPair(tokens, r, mvalues).r
    /\ UNCHANGED <<prog, length, lines, inner, paged, cv, tokens, id, valid,
                   rx, result, out, rec, expected, allWF>>

\* ext_solve: after the pair loop, the game's power is added.
ExtTally ==
    /\ prog = "ext_solve" /\ pc = "pairs" /\ r >= Len(tokens)
    /\ rx' = rx + GamePower(mvalues)
    /\ pc' = "loop"
    /\ EndOfRecord
    /\ UNCHANGED <<prog, length, lines, inner, paged, result, out,
                   expected, allWF>>

\* ext_solve: lines.next() yields None; Ok(rx).
ExtReturn ==
    /\ prog = "ext_solve" /\ pc = "loop" /\ inner >= length
    /\ paged' = PagedNext(paged, None).it
    /\ result' = Ok(rx) /\ pc' = "done"
    /\ UNCHANGED <<prog, length, lines, inner, cv, tokens, id, valid, r,
                   mvalues, rx, out, rec, expected, allWF>>

\* A call of next() on PagedIterator::init(reader.iter(), n).
PagedCall ==
    /\ prog = "paged" /\ Len(out) < MaxCalls
    /\ LET y == IterNext(lines, inner)
           pn == PagedNext(paged, y.ret)
       IN /\ inner' = y.pos /\ paged' = pn.it
          /\ out' = Append(out, [wrapped |-> y.ret, ret |-> pn.ret])
    /\ UNCHANGED <<prog, pc, length, lines, cv, tokens, id, valid, r,
                   mvalues, rx, result, rec, expected, allWF>>

\* A call of next() on reader.cycle().
CycleCall ==
    /\ prog = "cycle" /\ Len(out) < MaxCalls
    /\ inner' = CycleNext(lines, inner).pos
    /\ out' = Append(out, CycleNext(lines, inner).ret)
    /\ UNCHANGED <<prog, pc, length, lines, paged, cv, tokens, id, valid, r,
                   mvalues, rx, result, rec, expected, allWF>>

Next ==
    \/ OpenFails \/ Open
    \/ SolveNextLine \/ SolvePairStep \/ SolveTally \/ SolveReturn
    \/ ExtNextLine \/ ExtPairStep \/ ExtTally \/ ExtReturn
    \/ PagedCall \/ CycleCall

Spec == Init /\ [][Next]_vars

\* ------------------------------------------------------------- claims
SolveOrExt == prog \in {"solve", "ext_solve"}

\* The pair loop of the current record is over: solve is at `if valid`,
\* ext_solve at `let mut game_power`.
AtTally == pc = "tally" \/ (pc = "pairs" /\ r >= Len(tokens))

\* A token that is a decimal numeral, and its value.
IsNumeral(t) == Len(t) > 0 /\ \A i \in 1..Len(t) : IsDigit(t[i])

RECURSIVE ValueOf(_)
ValueOf(t) ==
    IF t = <<>> THEN 0
    ELSE 10 * ValueOf(SubSeq(t, 1, Len(t) - 1)) + DigitVal(t[Len(t)])

\* The token indices (0-based) at which a pair starts.
PairStarts(toks) == {j \in 2..(Len(toks) - 1) : j % 2 = 0}

\* The pair at j is malformed: its count is no numeral, its colour is
\* missing, or its colour is none of the three.
BadPairAt(toks, j) ==
    \/ ~IsNumeral(At(toks, j))
    \/ j + 1 >= Len(toks)
    \/ At(toks, j + 1) \notin Colours

HasMalformedPair(toks) == \E j \in PairStarts(toks) : BadPairAt(toks, j)

\* The pair at j is well-formed and over its colour's ceiling.
OverAt(toks, j) ==
    ~BadPairAt(toks, j) /\ ValueOf(At(toks, j)) > Ceiling(At(toks, j + 1))

\* C1: on a file of well-formed records solve never aborts, reads every line
\* once, and returns the sum of the ids of the records whose pairs are all
\* within red 12, green 13, blue 14; rx is that sum between two records.
C1_ValiditySum ==
    (prog = "solve" /\ allWF) =>
        /\ pc # "abort"
        /\ pc = "loop" => rx = expected
        /\ pc = "done" => result = Ok(expected) /\ inner = length

\* Two lines, the first record valid and the second over a limit: Ok(1).
C1_Witness ==
    /\ prog = "solve" /\ allWF /\ pc = "done"
    /\ length = 2 /\ result = Ok(1)

\* C2: on a file of well-formed records ext_solve never aborts, reads every
\* line once, and returns the sum over the records of max(red) * max(green)
\* * max(blue), 0 standing for the maximum of a colour the record lacks.
C2_PowerSum ==
    (prog = "ext_solve" /\ allWF) =>
        /\ pc # "abort"
        /\ pc = "loop" => rx = expected
        /\ pc = "done" => result = Ok(expected) /\ inner = length

\* Two lines, one record with the three colours, one lacking a colour.
C2_Witness ==
    /\ prog = "ext_solve" /\ allWF /\ pc = "done"
    /\ length = 2 /\ result = Ok(13 * 14 * 14)

\* C3 (as stated): a record with a malformed pair never reaches the end of
\* its evaluation, in either mode, whatever pairs precede the malformed one.
C3_MalformedAlwaysAborts ==
    (SolveOrExt /\ HasMalformedPair(tokens)) => ~AtTally

\* C3 (amended): neither mode goes past a malformed pair, and an abort
\* returns nothing; the pair loop ends early only in solve, at a well-formed
\* pair over its limit, and the pairs after that one, malformed or not, are
\* not inspected.
C3_MalformedAbortsUnlessShortCircuit ==
    SolveOrExt =>
        /\ pc \in {"pairs", "tally"} =>
              \A j \in PairStarts(tokens) : j < r => ~BadPairAt(tokens, j)
        /\ pc = "tally" => prog = "solve" /\ ~valid /\ OverAt(tokens, r)
        /\ pc = "abort" => result = NoResult

\* ext_solve aborts at the malformed second pair of the second line, the
\* power of the first line already in rx.
C3_Witness ==
    /\ prog = "ext_solve" /\ pc = "abort" /\ result = NoResult
    /\ rx > 0 /\ r = 4 /\ BadPairAt(tokens, r) /\ ~BadPairAt(tokens, 2)

\* C4: in solve and in ext_solve, a record whose second token is missing or
\* is no non-negative integer aborts: its pair loop is never reached.
C4_BadIdAborts ==
    (SolveOrExt /\ pc \in {"pairs", "tally"}) =>
        Len(tokens) >= 2 /\ IsNumeral(At(tokens, 1))

\* The first token of the record is not "Game", or the record has no token.
FirstNotGame(rc) == RecTokens(rc) = <<>> \/ RecTokens(rc)[1] # GameT

\* C5: in solve and in ext_solve, a line whose first token is not "Game", or
\* that has no token, aborts the evaluation: nothing is returned, and an
\* error value is returned only by a failed read, before any line.
C5_NotGameAborts ==
    SolveOrExt =>
        /\ (pc \in {"pairs", "tally", "abort"} /\ FirstNotGame(rec)) =>
              pc = "abort" /\ result = NoResult
        /\ result.kind = "err" => pc = "ioerr" /\ inner = 0

\* ext_solve aborts on a second line that holds "\r" alone, the power of the
\* first line already in rx.
C5_Witness ==
    /\ prog = "ext_solve" /\ pc = "abort" /\ result = NoResult
    /\ rx > 0 /\ inner = 2 /\ cv = <<"\r">>

\* The i-th call returned item i with page ceil(i / N) and line
\* ((i-1) mod N) + 1, the line between 1 and N (no division: N may be 0).
LabelOk(i, N, t) ==
    /\ t.page >= 1
    /\ (t.page - 1) * N < i /\ i <= t.page * N
    /\ 1 <= t.line /\ t.line <= N
    /\ \E q \in 0..i : i - 1 = q * N + (t.line - 1)

\* C6 (as stated): for every page length N, the i-th item carries page
\* ceil(i / N) and line ((i-1) mod N) + 1, a line between 1 and N.
C6_LabelsForEveryN ==
    prog = "paged" =>
        \A i \in 1..Len(out) :
            out[i].ret.some => LabelOk(i, paged.page_length, out[i].ret.v)

\* C6 (amended): for every page length N >= 1 the i-th item carries page
\* ceil(i / N) and line ((i-1) mod N) + 1, a line between 1 and N; for N = 0
\* it carries page i + 1 and line 1.  In solve and ext_solve, where N is the
\* number of lines, line i is labelled page 1, line i.
C6_LabelsForPositiveN ==
    /\ prog = "paged" =>
          \A i \in 1..Len(out) :
              out[i].ret.some =>
                  LET N == paged.page_length
                      t == out[i].ret.v
                  IN IF N >= 1
                     THEN /\ LabelOk(i, N, t)
                          /\ t.page = (i + N - 1) \div N
                          /\ t.line = ((i - 1) % N) + 1
                     ELSE t.page = i + 1 /\ t.line = 1
    /\ (SolveOrExt /\ inner >= 1) =>
          paged.page_number = 1 /\ paged.line_number = inner

\* Page length 2: the third item is the first line of page 2.
C6_Witness ==
    /\ prog = "paged" /\ paged.page_length = 2 /\ Len(out) >= 3
    /\ out[3].ret.some /\ out[3].ret.v.page = 2 /\ out[3].ret.v.line = 1

RECURSIVE FullPairs(_, _, _)
FullPairs(toks, i, ok) ==
    IF i >= Len(toks) THEN (IF ok THEN "valid" ELSE "invalid")
    ELSE IF \/ ~ParseUsize(At(toks, i)).some
            \/ i + 1 >= Len(toks)
         THEN "abort"
    ELSE LET m == CheckColour(At(toks, i + 1), ParseUsize(At(toks, i)).v)
         IN IF m = "panic" THEN "abort"
            ELSE FullPairs(toks, i + 2, ok /\ m # "break")

FullOutcome(toks) ==
    IF SolveHeader(toks).pc = "abort" THEN "abort" ELSE FullPairs(toks, 2, TRUE)

\* C8 (as stated): the outcome of solve for a record (valid, invalid, abort)
\* is that of the evaluation that inspects every pair.
C8_ShortCircuitSameOutcome ==
    prog = "solve" =>
        /\ pc = "abort" => FullOutcome(tokens) = "abort"
        /\ AtTally => FullOutcome(tokens) = (IF valid THEN "valid" ELSE "invalid")

\* C8 (amended): solve's outcome for a record is that of the evaluation that
\* inspects every pair whenever solve finds the record valid or aborts, and
\* whenever the record has no malformed pair; a record that solve finds
\* invalid and that has a malformed pair (after the pair solve stopped at)
\* aborts the evaluation that inspects every pair.
C8_ShortCircuitSameOutcomeIfWellFormed ==
    prog = "solve" =>
        /\ pc = "abort" => FullOutcome(tokens) = "abort"
        /\ (AtTally /\ valid) => FullOutcome(tokens) = "valid"
        /\ (AtTally /\ ~valid) =>
              FullOutcome(tokens) =
                  (IF HasMalformedPair(tokens) THEN "abort" ELSE "invalid")

\* solve stops at the first pair, two well-formed pairs left uninspected.
C8_Witness ==
    /\ prog = "solve" /\ pc = "tally" /\ ~valid
    /\ r = 2 /\ Len(tokens) = 8 /\ FullOutcome(tokens) = "invalid"

\* C9: PagedIterator only labels.  The items it yields are the wrapped
\* iterator's, in order; it returns None exactly when the wrapped iterator
\* does; a call that returns None leaves page_number and line_number as they
\* were; page_number never decreases, and line_number decreases only to 1,
\* on a page change.
C9_PureLabelling ==
    /\ [](prog = "paged" =>
            \A i \in 1..Len(out) :
                /\ out[i].ret.some = out[i].wrapped.some
                /\ out[i].ret.some = (i <= Len(lines))
                /\ out[i].ret.some => out[i].ret.v.item = lines[i])
    /\ [][/\ (prog = "paged" /\ Len(out') > Len(out)
              /\ ~out'[Len(out')].ret.some) => paged' = paged
          /\ (SolveOrExt /\ pc' = "done") => paged' = paged
          /\ paged'.page_length = paged.page_length \/ pc = "start"
          /\ paged'.page_number >= paged.page_number
          /\ \/ paged'.line_number >= paged.line_number
             \/ pc = "start"
             \/ /\ paged'.line_number = 1
                /\ paged'.page_number > paged.page_number]_vars

\* All items drained over two pages or more, then a call that returns None.
C9_Witness ==
    /\ prog = "paged" /\ Len(lines) = 3 /\ Len(out) = 4
    /\ ~out[4].ret.some /\ out[3].ret.some
    /\ paged.page_number >= 2 /\ paged.page_length >= 1

\* The slot of a colour in mvalues (0-based).
SlotOf(c) == IF c = RedT THEN 0 ELSE IF c = GreenT THEN 1 ELSE 2

\* The counts of colour c among the pairs of toks that start before index i.
SeenCounts(toks, i, c) ==
    {ValueOf(At(toks, j)) : j \in {k \in PairStarts(toks) : k < i /\ At(toks, k + 1) = c}}

Options == {None, Some(1), Some(2)}

\* C10: in ext_solve, after any prefix of a record's pairs, the slot of a
\* colour is None iff no pair of that colour was seen in the record, and else
\* holds the largest count seen for it; the slots of a new record are None;
\* reduce(a, b, f) is Some(f(l, r)) of two present operands, the present one
\* of the two, or None.
C10_RunningMaximum ==
    /\ (prog = "ext_solve" /\ pc = "pairs") =>
          \A c \in Colours :
              LET seen == SeenCounts(tokens, r, c)
                  slot == At(mvalues, SlotOf(c))
              IN IF seen = {} THEN ~slot.some
                 ELSE slot.some /\ slot.v = Largest(seen)
    /\ (prog = "ext_solve" /\ pc = "loop") => mvalues = <<None, None, None>>
    /\ \A a \in Options, b \in Options :
          LET x == Reduce(a, b, [l \in Nat, m \in Nat |-> 10 * l + m])
          IN /\ (a.some /\ b.some) => x = Some(10 * a.v + b.v)
             /\ (a.some /\ ~b.some) => x = a
             /\ (~a.some /\ b.some) => x = b
             /\ (~a.some /\ ~b.some) => x = None

\* After "13 red, 12 red": red holds 13, green and blue are None.
C10_Witness ==
    /\ prog = "ext_solve" /\ pc = "pairs" /\ r = 6
    /\ SeenCounts(tokens, r, RedT) = {12, 13} /\ ValueOf(At(tokens, 4)) = 12
    /\ At(mvalues, 0) = Some(13)
    /\ ~At(mvalues, 1).some /\ ~At(mvalues, 2).some

====
